---- MODULE Spec2Model ----
(***************************************************************************)
(* Fuzzy filter-rank engine of the frontend: fuzzySequentialMatch,         *)
(* fuzzyFilterSort, createMatchDecorator and _decorateMatch                *)
(* (src/unnamed/part_000, lines 1-151).                                    *)
(*                                                                         *)
(* Strings are sequences of one-character strings, so that substring,      *)
(* split and toLowerCase are computed character by character.  An optional *)
(* value (score?: number, a FuzzyScore | undefined) is the empty sequence  *)
(* when undefined and a one-element sequence when defined.                 *)
(*                                                                         *)
(* fuzzyScore and createMatches are imported from "./filter", which is not *)
(* part of the sources at hand; they are modelled from section 4.1 of the  *)
(* specification: a match exists exactly when the lower-cased filter is a  *)
(* subsequence of the lower-cased word, the matched ranges are those of    *)
(* the leftmost embedding, and the numeric score is an answer of the       *)
(* scorer that the model draws from RawScores once per (filter, word).     *)
(*                                                                         *)
(* The second part models two elements of the frontend: the add-on info    *)
(* card HassioAddonInfo (hassio-addon-info.ts) with its asynchronous       *)
(* click handlers, each await being a point where other handlers run, and  *)
(* HaServiceAction.updated (src/unnamed/part_000, lines 194-221).          *)
(***************************************************************************)
EXTENDS Integers, Sequences, FiniteSets, TLC

VARIABLES
    heap,        \* item id -> the item object (strings, score, decoratedStrings)
    items,       \* the caller's collection: a sequence of item ids (references)
    call,        \* the arguments of the last call and the scorer's answers in it
    sorted,      \* the value returned by the last fuzzyFilterSort call
    match,       \* the value returned by the last fuzzySequentialMatch call
    decoration,  \* the last direct call of a decorator and its return value
    rerun        \* the filter of the pass that a repeated fuzzyFilterSort followed

VARIABLES
    addon,       \* HassioAddonInfo.addon: the add-on details shown
    _metrics,    \* HassioAddonInfo._metrics
    _error,      \* HassioAddonInfo._error
    progress,    \* button -> the progress property of that ha-progress-button
    runs,        \* the handler runs started so far, each with its position
    events,      \* the events fired so far, in order
    calls,       \* the supervisor API calls made so far, in order
    loads        \* the _loadData calls made so far and their fetches

VARIABLES
    action,      \* HaServiceAction.action: a reference to an action object
    _action,     \* HaServiceAction._action: a reference, or undefined
    objects      \* object id -> the ServiceAction object

engineVars == <<heap, items, call, sorted, match, decoration, rerun>>
infoVars == <<addon, _metrics, _error, progress, runs, events, calls, loads>>
serviceVars == <<action, _action, objects>>

vars == <<heap, items, call, sorted, match, decoration, rerun,
          addon, _metrics, _error, progress, runs, events, calls, loads,
          action, _action, objects>>

-----------------------------------------------------------------------------
(* Bounds of the model *)

MaxItems == 2
MaxAliases == 2

-----------------------------------------------------------------------------
(* Optional values *)

Undefined == <<>>
Def(x) == <<x>>
IsDef(o) == Len(o) > 0
Val(o) == o[1]

Range(s) == {s[i] : i \in 1..Len(s)}

\* no add-on info card exists
NoAddonInfo ==
    /\ addon = Undefined
    /\ _metrics = Undefined
    /\ _error = Undefined
    /\ progress = <<>>
    /\ runs = <<>>
    /\ events = <<>>
    /\ calls = <<>>
    /\ loads = <<>>

\* no service action element exists
NoServiceAction ==
    /\ action = 0
    /\ _action = Undefined
    /\ objects = <<>>

NoElements == NoAddonInfo /\ NoServiceAction

-----------------------------------------------------------------------------
(* Strings *)

\* String.prototype.toLowerCase on the characters the model uses
LowerChar(c) == CASE c = "A" -> "a" [] c = "B" -> "b" [] OTHER -> c

\* strings compared as they are written
KeepCase(s) == s

toLowerCase(s) == [i \in 1..Len(s) |-> LowerChar(s[i])]

Clamp(n, len) == IF n < 0 THEN 0 ELSE IF n > len THEN len ELSE n

\* String.prototype.substring(start, end): 0-based, end exclusive, both
\* clamped to the string, swapped when start > end
substring(s, start, end) ==
    LET a == Clamp(start, Len(s))
        b == Clamp(end, Len(s))
        lo == IF a <= b THEN a ELSE b
        hi == IF a <= b THEN b ELSE a
    IN  SubSeq(s, lo + 1, hi)

\* the namespace separator of actualWord.split("::")
Separator == <<":", ":">>

RECURSIVE SplitFrom(_, _, _)
SplitFrom(s, i, cur) ==
    IF i > Len(s) THEN <<cur>>
    ELSE IF i < Len(s) /\ SubSeq(s, i, i + 1) = Separator
         THEN <<cur>> \o SplitFrom(s, i + 2, <<>>)
         ELSE SplitFrom(s, i + 1, Append(cur, s[i]))

\* String.prototype.split("::"): cut at the non-overlapping occurrences of
\* the separator, found left to right; the separator itself is dropped
split(s) == SplitFrom(s, 1, <<>>)

-----------------------------------------------------------------------------
(* The scorer, "./filter" (specification, section 4.1) *)

\* the raw scores a scorer may answer
RawScores == {-2, 0, 3}

RECURSIVE IsSubsequence(_, _)
IsSubsequence(p, w) ==
    IF p = <<>> THEN TRUE
    ELSE IF w = <<>> THEN FALSE
    ELSE IF Head(p) = Head(w) THEN IsSubsequence(Tail(p), Tail(w))
    ELSE IsSubsequence(p, Tail(w))

\* 0-based positions of the leftmost embedding of p in w, from offset `at`
RECURSIVE MatchPositions(_, _, _)
MatchPositions(p, w, at) ==
    IF p = <<>> \/ w = <<>> THEN <<>>
    ELSE IF Head(p) = Head(w)
         THEN <<at>> \o MatchPositions(Tail(p), Tail(w), at + 1)
         ELSE MatchPositions(p, Tail(w), at + 1)

\* consecutive positions merged into ranges [start, end)
RECURSIVE MergeRanges(_)
MergeRanges(ps) ==
    IF ps = <<>> THEN <<>>
    ELSE LET rest == MergeRanges(Tail(ps))
         IN  IF rest # <<>> /\ rest[1].start = Head(ps) + 1
             THEN <<[start |-> Head(ps), end |-> rest[1].end]>> \o Tail(rest)
             ELSE <<[start |-> Head(ps), end |-> Head(ps) + 1]>> \o rest

\* fuzzyScore(pattern, patternLow, 0, word, wordLow, 0, true); table holds the
\* scorer's numeric answer for every word the pattern matches
fuzzyScore(pattern, patternLow, word, wordLow, table) ==
    IF IsSubsequence(patternLow, wordLow)
    THEN Def([score |-> table[word],
              ranges |-> MergeRanges(MatchPositions(patternLow, wordLow, 0))])
    ELSE Undefined

createMatches(scores) == scores.ranges

-----------------------------------------------------------------------------
(* The decorator *)

\* a loop that forgets the text between two matches
RECURSIVE DecorateLoopDropsGap(_, _, _, _, _, _)
DecorateLoopDropsGap(word, left, right, matches, pos, actualWord) ==
    IF matches = <<>> THEN [pos |-> pos, actualWord |-> actualWord]
    ELSE LET m == Head(matches)
         IN  DecorateLoopDropsGap(word, left, right, Tail(matches), m.end,
                 actualWord \o left
                            \o substring(word, m.start, m.end) \o right)

\* a loop that never moves past a match
RECURSIVE DecorateLoopKeepsPos(_, _, _, _, _, _)
DecorateLoopKeepsPos(word, left, right, matches, pos, actualWord) ==
    IF matches = <<>> THEN [pos |-> pos, actualWord |-> actualWord]
    ELSE LET m == Head(matches)
         IN  DecorateLoopKeepsPos(word, left, right, Tail(matches), pos,
                 actualWord \o substring(word, pos, m.start) \o left
                            \o substring(word, m.start, m.end) \o right)

RECURSIVE DecorateLoop(_, _, _, _, _, _)
DecorateLoop(word, left, right, matches, pos, actualWord) ==
    IF matches = <<>> THEN [pos |-> pos, actualWord |-> actualWord]
    ELSE LET m == Head(matches)
         IN  DecorateLoop(word, left, right, Tail(matches), m.end,
                 actualWord \o substring(word, pos, m.start) \o left
                            \o substring(word, m.start, m.end) \o right)

\* a decorator that splits the unmatched alias as well
DecorateMatchSplitsUnmatched(word, surroundWith, scores) ==
    LET matches == IF IsDef(scores) THEN createMatches(Val(scores)) ELSE <<>>
        loop == DecorateLoop(word, surroundWith[1], surroundWith[2],
                             matches, 0, <<>>)
    IN  split(loop.actualWord \o substring(word, loop.pos, Len(word)))

\* a decorator that forgets the text after the last match
DecorateMatchDropsTail(word, surroundWith, scores) ==
    IF ~IsDef(scores) THEN <<word>>
    ELSE split(DecorateLoop(word, surroundWith[1], surroundWith[2],
                            createMatches(Val(scores)), 0, <<>>).actualWord)

\* surroundWith is <<left, right>>; scores is a FuzzyScore or Undefined
_decorateMatch(word, surroundWith, scores) ==
    IF ~IsDef(scores) THEN <<word>>
    ELSE LET matches == createMatches(Val(scores))
             loop == DecorateLoop(word, surroundWith[1], surroundWith[2],
                                  matches, 0, <<>>)
             actualWord == loop.actualWord \o substring(word, loop.pos, Len(word))
         IN  split(actualWord)

\* a decorator is the closure over its two markers
createMatchDecorator(left, right) == [left |-> left, right |-> right]

ApplyDecorator(decorate, word, scores) ==
    _decorateMatch(word, <<decorate.left, decorate.right>>, scores)

\* a parameter without a default value
NoDefaultDecorate(decorate) == decorate

\* decorate = createMatchDecorator("[", "]") when the argument is left out
DefaultDecorate(decorate) ==
    IF IsDef(decorate) THEN decorate
    ELSE Def(createMatchDecorator(<<"[">>, <<"]">>))

-----------------------------------------------------------------------------
(* The per-item aggregator *)

\* a running maximum that starts at 0
TopScoreStartsAtZero == [neginf |-> FALSE, n |-> 0]

\* the running maximum is a number or Number.NEGATIVE_INFINITY
NEGATIVE_INFINITY == [neginf |-> TRUE, n |-> 0]
Num(n) == [neginf |-> FALSE, n |-> n]

\* the comparison turned around
LessThan(score, topScore) == topScore.neginf \/ score < topScore.n

\* score > topScore
GreaterThan(score, topScore) == topScore.neginf \/ score > topScore.n

\* the raw score passed through
RemapNothing(raw) == raw

\* scores[0] === 0 ? 1 : scores[0]
Remap(raw) == IF raw = 0 THEN 1 ELSE raw

\* a loop that leaves the unmatched aliases undecorated (`continue` first)
RECURSIVE MatchLoopSkipsUnmatched(_, _, _, _, _, _, _)
MatchLoopSkipsUnmatched(filter, strings, decorate, table, k, topScore, done) ==
    IF k > Len(strings)
    THEN [topScore |-> topScore, decoratedStrings |-> done]
    ELSE LET word == strings[k]
             scores == fuzzyScore(filter, toLowerCase(filter),
                                  word, toLowerCase(word), table)
         IN  IF ~IsDef(scores)
             THEN MatchLoopSkipsUnmatched(filter, strings, decorate, table,
                                          k + 1, topScore, done)
             ELSE LET score == Remap(Val(scores).score)
                  IN  MatchLoopSkipsUnmatched(filter, strings, decorate,
                          table, k + 1,
                          IF GreaterThan(score, topScore)
                          THEN Num(score) ELSE topScore,
                          IF IsDef(decorate)
                          THEN Append(done,
                                      ApplyDecorator(Val(decorate), word,
                                                     scores))
                          ELSE done)

\* the body of `for (const word of item.strings)`, from the k-th alias on
RECURSIVE MatchLoop(_, _, _, _, _, _, _)
MatchLoop(filter, strings, decorate, table, k, topScore, decoratedStrings) ==
    IF k > Len(strings)
    THEN [topScore |-> topScore, decoratedStrings |-> decoratedStrings]
    ELSE LET word == strings[k]
             scores == fuzzyScore(filter, toLowerCase(filter),
                                  word, toLowerCase(word), table)
             pushed == IF IsDef(decorate)
                       THEN Append(decoratedStrings,
                                   ApplyDecorator(Val(decorate), word, scores))
                       ELSE decoratedStrings
         IN  IF ~IsDef(scores)
             THEN MatchLoop(filter, strings, decorate, table, k + 1,
                            topScore, pushed)
             ELSE LET score == Remap(Val(scores).score)
                  IN  MatchLoop(filter, strings, decorate, table, k + 1,
                          IF GreaterThan(score, topScore)
                          THEN Num(score) ELSE topScore,
                          pushed)

\* an aggregator that reports "no alias matched" as the score 0
fuzzySequentialMatchZeroForNoMatch(filter, item, decorate, table) ==
    LET loop == MatchLoop(filter, item.strings, DefaultDecorate(decorate),
                          table, 1, NEGATIVE_INFINITY, <<>>)
    IN  Def([score |-> IF loop.topScore = NEGATIVE_INFINITY
                       THEN 0 ELSE loop.topScore.n,
             strings |-> item.strings,
             decoratedStrings |-> loop.decoratedStrings])

\* the outcome of reading scores[0] when scores is undefined
TypeError == [exception |-> "TypeError"]

\* an aggregator that reads scores[0] before it tests `!scores`
fuzzySequentialMatchUnguarded(filter, item, decorate, table) ==
    IF \E k \in 1..Len(item.strings) :
          ~IsDef(fuzzyScore(filter, toLowerCase(filter), item.strings[k],
                            toLowerCase(item.strings[k]), table))
    THEN Def(TypeError)
    ELSE LET loop == MatchLoop(filter, item.strings, DefaultDecorate(decorate),
                               table, 1, NEGATIVE_INFINITY, <<>>)
         IN  IF loop.topScore = NEGATIVE_INFINITY THEN Undefined
             ELSE Def([score |-> loop.topScore.n,
                       strings |-> item.strings,
                       decoratedStrings |-> loop.decoratedStrings])

\* item is the item object; decorate is the optional third argument
fuzzySequentialMatch(filter, item, decorate, table) ==
    LET loop == MatchLoop(filter, item.strings, DefaultDecorate(decorate),
                          table, 1, NEGATIVE_INFINITY, <<>>)
    IN  IF loop.topScore = NEGATIVE_INFINITY THEN Undefined
        ELSE Def([score |-> loop.topScore.n,
                  strings |-> item.strings,
                  decoratedStrings |-> loop.decoratedStrings])

-----------------------------------------------------------------------------
(* The filter + rank driver *)

\* a callback that keeps the old score when nothing matches
MapItemKeepsOldScore(filter, item, decorate, table) ==
    LET m == fuzzySequentialMatch(filter, item, decorate, table)
    IN  IF IsDef(m)
        THEN [item EXCEPT !.score = Def(Val(m).score),
                          !.decoratedStrings = Def(Val(m).decoratedStrings)]
        ELSE item

\* a callback that clears the score of a rejected item and not its groups
MapItemKeepsOldGroups(filter, item, decorate, table) ==
    LET m == fuzzySequentialMatch(filter, item, decorate, table)
    IN  IF IsDef(m)
        THEN [item EXCEPT !.score = Def(Val(m).score),
                          !.decoratedStrings = Def(Val(m).decoratedStrings)]
        ELSE [item EXCEPT !.score = Undefined]

\* a callback that computes the score of an item once and keeps it afterwards
MapItemCachesScore(filter, item, decorate, table) ==
    IF IsDef(item.score) THEN item
    ELSE LET m == fuzzySequentialMatch(filter, item, decorate, table)
         IN  [item EXCEPT
                 !.score = IF IsDef(m) THEN Def(Val(m).score) ELSE Undefined,
                 !.decoratedStrings =
                     IF IsDef(m) THEN Def(Val(m).decoratedStrings) ELSE Undefined]

\* the callback of items.map: writes score and decoratedStrings on the item
MapItem(filter, item, decorate, table) ==
    LET m == fuzzySequentialMatch(filter, item, decorate, table)
    IN  [item EXCEPT
            !.score = IF IsDef(m) THEN Def(Val(m).score) ELSE Undefined,
            !.decoratedStrings = IF IsDef(m) THEN Def(Val(m).decoratedStrings)
                                 ELSE Undefined]

\* a filter that keeps the positive scores only
KeepPositive(item) == IsDef(item.score) /\ Val(item.score) > 0

\* a filter that keeps every item
KeepEveryItem(item) == TRUE

\* the callback of .filter
KeepItem(item) == item.score # Undefined

\* the comparator of an ascending sort
compareFnAscending(a, b) ==
    LET scoreA == IF IsDef(a.score) THEN Val(a.score) ELSE 0
        scoreB == IF IsDef(b.score) THEN Val(b.score) ELSE 0
    IN  IF scoreA > scoreB THEN 1 ELSE IF scoreA < scoreB THEN -1 ELSE 0

\* a comparator that never reports two items as equal
compareFnOrdersTies(a, b) ==
    LET scoreA == IF IsDef(a.score) THEN Val(a.score) ELSE 0
        scoreB == IF IsDef(b.score) THEN Val(b.score) ELSE 0
    IN  IF scoreA > scoreB THEN -1 ELSE 1

\* the callback of .sort, with its defaults scoreA = 0 and scoreB = 0
compareFn(a, b) ==
    LET scoreA == IF IsDef(a.score) THEN Val(a.score) ELSE 0
        scoreB == IF IsDef(b.score) THEN Val(b.score) ELSE 0
    IN  IF scoreA > scoreB THEN -1 ELSE IF scoreA < scoreB THEN 1 ELSE 0

\* Array.prototype.sort is stable: x goes after every element that does not
\* compare greater than it
RECURSIVE InsertSorted(_, _, _)
InsertSorted(h, s, x) ==
    IF s = <<>> THEN <<x>>
    ELSE IF compareFn(h[Head(s)], h[x]) > 0 THEN <<x>> \o s
    ELSE <<Head(s)>> \o InsertSorted(h, Tail(s), x)

RECURSIVE SortIds(_, _, _)
SortIds(h, s, acc) ==
    IF s = <<>> THEN acc
    ELSE SortIds(h, Tail(s), InsertSorted(h, acc, Head(s)))

\* items.map(...): the callback runs on the items in order and writes on the
\* objects themselves; the mapped array holds the same references
RECURSIVE MapItems(_, _, _, _, _, _)
MapItems(filter, input, decorate, table, h, k) ==
    IF k > Len(input) THEN h
    ELSE MapItems(filter, input, decorate, table,
                  [h EXCEPT ![input[k]] = MapItem(filter, h[input[k]],
                                                  decorate, table)],
                  k + 1)

\* .filter(...).sort(...) on the mapped array, a new array
FilterAndSort(h, mapped) ==
    SortIds(h, SelectSeq(mapped, LAMBDA id : KeepItem(h[id])), <<>>)

\* a driver that sorts the caller's array itself before filtering it
fuzzyFilterSortInPlace(filter, input, decorate, table, h) ==
    LET h2 == MapItems(filter, input, DefaultDecorate(decorate), table, h, 1)
        inPlace == SortIds(h2, input, <<>>)
    IN  [heap |-> h2, items |-> inPlace,
         result |-> SelectSeq(inPlace, LAMBDA id : KeepItem(h2[id]))]

\* the whole call: the heap after it, the caller's array, the returned array
fuzzyFilterSort(filter, input, decorate, table, h) ==
    LET h2 == MapItems(filter, input, DefaultDecorate(decorate), table, h, 1)
    IN  [heap |-> h2, items |-> input, result |-> FilterAndSort(h2, input)]

-----------------------------------------------------------------------------
(* Inputs of the model *)

MaxRanges == 2

Words == { <<"A", "b">>, <<"b", ":", ":", "A">> }

Filters == { <<>>, <<"a", "B">>, <<"b", ":">>, <<"c">> }

\* the optional decorate argument: left out, or a decorator of the caller
DecorateArgs == { Undefined, Def(createMatchDecorator(<<"<">>, <<">">>)) }

\* fuzzyFilterSort is called with the decorate argument left out
SortDecorateArgs == { Undefined }

AliasLists == UNION { [1..n -> Words] : n \in 0..MaxAliases }

\* the aliases of the item handed to fuzzySequentialMatch: the words and the
\* empty string
MatchWords == Words \cup { <<>> }

MatchAliasLists == UNION { [1..n -> MatchWords] : n \in 0..MaxAliases }

\* the filters handed to fuzzySequentialMatch: one more that matches an alias
\* in two places, and one longer than every alias
MatchFilters == Filters \cup { <<"b", "A">>, <<"A", "b", ":", ":", "A">> }

\* the words handed to a decorator directly
DecoratorWords ==
    Words \cup { <<>>, <<":", ":", ":">>, <<"a", ":", ":", "b", ":", ":">> }

RangesOf(word) ==
    { [start |-> a, end |-> b] : a \in 0..Len(word), b \in 0..Len(word) }

\* the sorted, non-overlapping range lists inside word
RangeLists(word) ==
    { rs \in UNION { [1..k -> RangesOf(word)] : k \in 0..MaxRanges } :
        /\ \A i \in 1..Len(rs) : rs[i].start <= rs[i].end
        /\ \A i \in 1..(Len(rs) - 1) : rs[i].end <= rs[i + 1].start }

\* "light::kitchen", decorated with a match on "kitchen"
LightKitchen ==
    <<"l", "i", "g", "h", "t", ":", ":", "k", "i", "t", "c", "h", "e", "n">>

\* the range lists a decorator is handed for word
DecoratorRanges(word) ==
    IF word = LightKitchen THEN { <<[start |-> 7, end |-> 14]>> }
    ELSE RangeLists(word)

\* does the scorer report a match of filter in word
Matches(filter, word) == IsSubsequence(toLowerCase(filter), toLowerCase(word))

\* the words of the collection that the filter matches
MatchingWords(filter, h, input) ==
    { w \in UNION { Range(h[id].strings) : id \in Range(input) } :
        Matches(filter, w) }

NoCall == [op |-> "none", filter |-> <<>>, decorate |-> Undefined, table |-> <<>>]

\* the scorer is a pure function: its answers for a filter stay what they
\* were while that filter is asked again
ScorerAnswers(filter) ==
    IF call.op # "none" /\ call.filter = filter THEN {call.table}
    ELSE [MatchingWords(filter, heap, items) -> RawScores]

NoMatch == [item |-> 0, result |-> Undefined]

-----------------------------------------------------------------------------
(* Initial states: a collection of fresh items *)

Init ==
    \E n \in 0..MaxItems : \E strs \in [1..n -> AliasLists] :
        /\ heap = [id \in 1..n |->
                     [strings |-> strs[id], score |-> Undefined,
                      decoratedStrings |-> Undefined]]
        /\ items = [i \in 1..n |-> i]
        /\ call = NoCall
        /\ sorted = Undefined
        /\ match = NoMatch
        /\ decoration = Undefined
        /\ rerun = Undefined
        /\ NoElements

\* an item object as its caller builds it
FreshItem(strs) ==
    [strings |-> strs, score |-> Undefined, decoratedStrings |-> Undefined]

\* a collection of fresh items with at most one alias each, for repeated passes
InitRerun ==
    \E n \in 0..MaxItems : \E strs \in [1..n -> { <<>> } \cup { <<w>> : w \in Words }] :
        /\ heap = [id \in 1..n |-> FreshItem(strs[id])]
        /\ items = [i \in 1..n |-> i]
        /\ call = NoCall
        /\ sorted = Undefined
        /\ match = NoMatch
        /\ decoration = Undefined
        /\ rerun = Undefined
        /\ NoElements

\* one item, for the calls of fuzzySequentialMatch
InitMatch ==
    \E strs \in MatchAliasLists, used \in BOOLEAN :
        /\ heap = << IF used
                     THEN MapItem(<<>>, FreshItem(strs), Undefined,
                                  [w \in Range(strs) |-> 3])
                     ELSE FreshItem(strs) >>
        /\ items = <<1>>
        /\ call = NoCall
        /\ sorted = Undefined
        /\ match = NoMatch
        /\ decoration = Undefined
        /\ rerun = Undefined
        /\ NoElements

\* the arguments of one call of a decorator, not yet made
InitDecorate ==
    \E word \in DecoratorWords \cup {LightKitchen}, d \in DecorateArgs,
       matched \in BOOLEAN :
      \E rs \in (IF matched THEN DecoratorRanges(word) ELSE {<<>>}) :
        /\ heap = <<>>
        /\ items = <<>>
        /\ call = NoCall
        /\ sorted = Undefined
        /\ match = NoMatch
        /\ decoration =
              [word |-> word, decorate |-> Val(DefaultDecorate(d)),
               scores |-> IF matched THEN Def([score |-> 0, ranges |-> rs])
                          ELSE Undefined,
               fragments |-> Undefined]
        /\ rerun = Undefined
        /\ NoElements

-----------------------------------------------------------------------------
(* Operations *)

\* fuzzyFilterSort(filter, items, decorate)
FilterSort ==
    \E filter \in Filters, decorate \in SortDecorateArgs :
      \E table \in ScorerAnswers(filter) :
        \E r \in {fuzzyFilterSort(filter, items, decorate, table, heap)} :
            /\ heap' = r.heap
            /\ items' = r.items
            /\ sorted' = Def(r.result)
            /\ call' = [op |-> "fuzzyFilterSort", filter |-> filter,
                        decorate |-> decorate, table |-> table]
            /\ UNCHANGED <<match, decoration, rerun, infoVars, serviceVars>>

\* the first fuzzyFilterSort call on a collection of fresh items
FirstFilterSort ==
    /\ call.op = "none"
    /\ FilterSort

\* fuzzyFilterSort(filter, items, decorate) called again on the same item
\* objects, after a pass with the same or with another filter
FilterSortAgain ==
    /\ call.op = "fuzzyFilterSort"
    /\ \E filter \in Filters, decorate \in SortDecorateArgs :
         \E table \in ScorerAnswers(filter) :
           \E r \in {fuzzyFilterSort(filter, items, decorate, table, heap)} :
               /\ heap' = r.heap
               /\ items' = r.items
               /\ sorted' = Def(r.result)
               /\ call' = [op |-> "fuzzyFilterSort", filter |-> filter,
                           decorate |-> decorate, table |-> table]
               /\ rerun' = Def(call.filter)
               /\ UNCHANGED <<match, decoration, infoVars, serviceVars>>

\* a matcher that stores its result on the item, as the driver does
MatchItemWritesScore ==
    \E id \in Range(items), filter \in MatchFilters, decorate \in DecorateArgs :
      \E table \in ScorerAnswers(filter) :
        /\ match' = [item |-> id,
                     result |-> fuzzySequentialMatch(filter, heap[id],
                                                     decorate, table)]
        /\ heap' = [heap EXCEPT ![id] = MapItem(filter, heap[id], decorate, table)]
        /\ call' = [op |-> "fuzzySequentialMatch", filter |-> filter,
                    decorate |-> decorate, table |-> table]
        /\ UNCHANGED <<items, sorted, decoration, rerun, infoVars, serviceVars>>

\* fuzzySequentialMatch(filter, item, decorate) on one item of the collection
MatchItem ==
    \E id \in Range(items), filter \in MatchFilters, decorate \in DecorateArgs :
      \E table \in ScorerAnswers(filter) :
        /\ match' = [item |-> id,
                     result |-> fuzzySequentialMatch(filter, heap[id],
                                                     decorate, table)]
        /\ call' = [op |-> "fuzzySequentialMatch", filter |-> filter,
                    decorate |-> decorate, table |-> table]
        /\ UNCHANGED <<heap, items, sorted, decoration, rerun, infoVars, serviceVars>>

\* createMatchDecorator(left, right)(word, scores)
Decorate ==
    /\ decoration.fragments = Undefined
    /\ decoration' =
          [decoration EXCEPT
             !.fragments = Def(ApplyDecorator(decoration.decorate,
                                              decoration.word,
                                              decoration.scores))]
    /\ UNCHANGED <<heap, items, call, sorted, match, rerun, infoVars,
                 serviceVars>>

Next == FilterSort

Spec == Init /\ [][Next]_vars

NextRerun == FirstFilterSort \/ FilterSortAgain

SpecRerun == InitRerun /\ [][NextRerun]_vars

NextMatch == MatchItem

SpecMatch == InitMatch /\ [][NextMatch]_vars

NextDecorate == Decorate

SpecDecorate == InitDecorate /\ [][NextDecorate]_vars

-----------------------------------------------------------------------------
(* The add-on info card: hassio-addon-info.ts *)

\* the handler runs started on one card
MaxClicks == 2

\* the _loadData calls made on one card
MaxLoads == 3

\* the fuzzy engine is not in use
NoEngine ==
    /\ heap = <<>>
    /\ items = <<>>
    /\ call = NoCall
    /\ sorted = Undefined
    /\ match = NoMatch
    /\ decoration = Undefined
    /\ rerun = Undefined

\* HassioAddonDetails, the fields the handlers read
Addons ==
    { [slug |-> "a", state |-> "started", boot |-> "auto", watchdog |-> TRUE,
       auto_update |-> TRUE, ingress_panel |-> TRUE, protected |-> TRUE],
      [slug |-> "b", state |-> "started", boot |-> "manual", watchdog |-> FALSE,
       auto_update |-> FALSE, ingress_panel |-> FALSE, protected |-> FALSE],
      [slug |-> "c", state |-> "stopped", boot |-> "manual", watchdog |-> TRUE,
       auto_update |-> FALSE, ingress_panel |-> FALSE, protected |-> TRUE] }

\* what fetchHassioAddonInfo can answer for the add-on a
FetchedInfo(a) == { [a EXCEPT !.state = st] : st \in {"started", "stopped"} }

ToggleHandlers ==
    { "_startOnBootToggled", "_watchdogToggled", "_autoUpdateToggled",
      "_protectionToggled", "_panelToggled" }

\* the handlers that make one API call between progress = true and = false
ButtonHandlers == { "_installClicked", "_stopClicked", "_restartClicked" }

\* the ha-progress-button a handler is attached to (ev.currentTarget)
ButtonOf(handler) ==
    CASE handler = "_installClicked" -> "install"
      [] handler = "_stopClicked" -> "stop"
      [] handler = "_restartClicked" -> "restart"
      [] handler = "_startClicked" -> "start"
      [] handler = "_uninstallClicked" -> "uninstall"

Buttons == { "install", "stop", "restart", "start", "uninstall" }

\* the API function a handler awaits
ApiOf(handler) ==
    CASE handler = "_installClicked" -> "installHassioAddon"
      [] handler = "_stopClicked" -> "stopHassioAddon"
      [] handler = "_restartClicked" -> "restartHassioAddon"
      [] handler = "_uninstallClicked" -> "uninstallHassioAddon"
      [] handler = "_startClicked" -> "startHassioAddon"
      [] handler = "_updateAddon" -> "updateHassioAddon"
      [] handler = "_protectionToggled" -> "setHassioAddonSecurity"
      [] OTHER -> "setHassioAddonOption"

\* eventdata.path as written in each handler
PathOf(handler) ==
    CASE handler = "_installClicked" -> "install"
      [] handler = "_stopClicked" -> "stop"
      [] handler = "_restartClicked" -> "stop"
      [] handler = "_uninstallClicked" -> "uninstall"
      [] handler = "_startClicked" -> "start"
      [] handler = "_updateAddon" -> "update"
      [] handler = "_protectionToggled" -> "security"
      [] OTHER -> "option"

\* a toggle that sends the current value again
ToggleDataKeepsValue(handler, a) ==
    CASE handler = "_startOnBootToggled" -> [boot |-> a.boot]
      [] handler = "_watchdogToggled" -> [watchdog |-> a.watchdog]
      [] handler = "_autoUpdateToggled" -> [auto_update |-> a.auto_update]
      [] handler = "_protectionToggled" -> [protected |-> a.protected]
      [] handler = "_panelToggled" -> [ingress_panel |-> a.ingress_panel]

\* const data = {...}: the parameters a toggle handler sends for the add-on a
ToggleData(handler, a) ==
    CASE handler = "_startOnBootToggled" ->
            [boot |-> IF a.boot = "auto" THEN "manual" ELSE "auto"]
      [] handler = "_watchdogToggled" -> [watchdog |-> ~a.watchdog]
      [] handler = "_autoUpdateToggled" -> [auto_update |-> ~a.auto_update]
      [] handler = "_protectionToggled" -> [protected |-> ~a.protected]
      [] handler = "_panelToggled" -> [ingress_panel |-> ~a.ingress_panel]

\* some handler run is between two of its steps
InFlight == \E i \in 1..Len(runs) : runs[i].pc # "done"

\* a handler is called and runs up to its first await, at pc; overlapped
\* records for each run whether another run was in flight at some time
\* between its start and its end
StartRun(handler, pc) ==
    Append([i \in 1..Len(runs) |->
               IF runs[i].pc # "done" THEN [runs[i] EXCEPT !.overlapped = TRUE]
               ELSE runs[i]],
           [handler |-> handler, pc |-> pc, awaited |-> <<>>,
            overlapped |-> InFlight])

\* the run r resumes after an await that settled with result, and goes on to pc
Resume(r, pc, result) ==
    [runs EXCEPT ![r].pc = pc, ![r].awaited = Append(@, result)]

\* the API call made by the run r
ApiCall(r, api, data) ==
    Append(calls, [api |-> api, slug |-> addon.slug, data |-> data, run |-> r])

\* fireEvent(this, "hass-api-called", {success: true, response: undefined, path})
FireApiCalled(evs, r, path) ==
    Append(evs, [type |-> "hass-api-called",
                 detail |-> [success |-> TRUE, path |-> path], run |-> r])

\* fireEvent(this, "supervisor-collection-refresh", {collection: "addon"})
FireCollectionRefresh(evs, r) ==
    Append(evs, [type |-> "supervisor-collection-refresh",
                 detail |-> [collection |-> "addon"], run |-> r])

\* what fetchHassioStats(hass, `addons/${slug}`) resolves with
fetchHassioStats(slug) == [addon |-> slug]

\* updated(changedProps) with "addon" changed: _loadData() up to its await
_loadData(a, ls) ==
    Append(ls, [slug |-> a.slug, state |-> a.state,
                fetch |-> IF a.state = "started" THEN "pending" ELSE "none"])

\* the card after its first render with the add-on a
InitCard(a) ==
    /\ addon = a
    /\ _metrics = Undefined
    /\ _error = Undefined
    /\ progress = [b \in Buttons |-> FALSE]
    /\ runs = <<>>
    /\ events = <<>>
    /\ calls = <<>>
    /\ loads = _loadData(a, <<>>)

InitInfo ==
    /\ \E a \in Addons : InitCard(a)
    /\ NoEngine
    /\ NoServiceAction

\* a click on one of the five switches
ToggleClicked ==
    \E handler \in ToggleHandlers :
        /\ Len(runs) < MaxClicks
        /\ _error' = Undefined
        /\ calls' = ApiCall(Len(runs) + 1, ApiOf(handler),
                            Def(ToggleData(handler, addon)))
        /\ runs' = StartRun(handler, "api")
        /\ UNCHANGED <<addon, _metrics, progress, events, loads>>
        /\ UNCHANGED <<engineVars, serviceVars>>

\* setHassioAddonOption / setHassioAddonSecurity settles
ToggleSettled ==
    \E r \in 1..Len(runs), ok \in BOOLEAN :
        /\ runs[r].handler \in ToggleHandlers
        /\ runs[r].pc = "api"
        /\ IF ok
           THEN /\ events' = FireApiCalled(events, r, PathOf(runs[r].handler))
                /\ _error' = _error
           ELSE /\ _error' = Def("addon.failed_to_save")
                /\ events' = events
        /\ runs' = Resume(r, "done", IF ok THEN "ok" ELSE "error")
        /\ UNCHANGED <<addon, _metrics, progress, calls, loads>>
        /\ UNCHANGED <<engineVars, serviceVars>>

\* a click on Install, Stop or Restart
ButtonClicked ==
    \E handler \in ButtonHandlers :
        /\ Len(runs) < MaxClicks
        /\ progress' = [progress EXCEPT ![ButtonOf(handler)] = TRUE]
        /\ calls' = ApiCall(Len(runs) + 1, ApiOf(handler), Undefined)
        /\ runs' = StartRun(handler, "api")
        /\ UNCHANGED <<addon, _metrics, _error, events, loads>>
        /\ UNCHANGED <<engineVars, serviceVars>>

\* the API call of Install, Stop, Restart or Uninstall settles
ButtonSettled ==
    \E r \in 1..Len(runs), ok \in BOOLEAN :
        /\ runs[r].handler \in ButtonHandlers \cup {"_uninstallClicked"}
        /\ runs[r].pc = "api"
        /\ events' = IF ok THEN FireApiCalled(events, r, PathOf(runs[r].handler))
                     ELSE events
        /\ progress' = [progress EXCEPT ![ButtonOf(runs[r].handler)] = FALSE]
        /\ runs' = Resume(r, "done", IF ok THEN "ok" ELSE "error")
        /\ UNCHANGED <<addon, _metrics, _error, calls, loads>>
        /\ UNCHANGED <<engineVars, serviceVars>>

\* the update dialog calls its updateHandler: _updateAddon()
UpdateAddonCalled ==
    /\ Len(runs) < MaxClicks
    /\ calls' = ApiCall(Len(runs) + 1, ApiOf("_updateAddon"), Undefined)
    /\ runs' = StartRun("_updateAddon", "api")
    /\ UNCHANGED <<addon, _metrics, _error, progress, events, loads>>
    /\ UNCHANGED <<engineVars, serviceVars>>

\* updateHassioAddon settles; a failure rejects the promise of _updateAddon
UpdateAddonSettled ==
    \E r \in 1..Len(runs), ok \in BOOLEAN :
        /\ runs[r].handler = "_updateAddon"
        /\ runs[r].pc = "api"
        /\ events' = IF ok
                     THEN FireApiCalled(FireCollectionRefresh(events, r), r,
                                        PathOf("_updateAddon"))
                     ELSE events
        /\ runs' = Resume(r, "done", IF ok THEN "ok" ELSE "error")
        /\ UNCHANGED <<addon, _metrics, _error, progress, calls, loads>>
        /\ UNCHANGED <<engineVars, serviceVars>>

\* a click on Start, up to `await validateHassioAddonOption(...)`
StartClicked ==
    /\ Len(runs) < MaxClicks
    /\ progress' = [progress EXCEPT !["start"] = TRUE]
    /\ calls' = ApiCall(Len(runs) + 1, "validateHassioAddonOption", Undefined)
    /\ runs' = StartRun("_startClicked", "validate")
    /\ UNCHANGED <<addon, _metrics, _error, events, loads>>
    /\ UNCHANGED <<engineVars, serviceVars>>

\* the outcomes of the first try block of _startClicked
ValidationResults == { "valid", "invalid", "error" }

\* a handler that starts the add-on whatever the validation says
StartAfterValidationAlways(r, result) ==
    /\ calls' = ApiCall(r, ApiOf("_startClicked"), Undefined)
    /\ runs' = Resume(r, "api", result)
    /\ progress' = progress

\* a handler that returns after a failed validation with the button spinning
StartAfterValidationKeepsProgress(r, result) ==
    CASE result = "valid" ->
            /\ calls' = ApiCall(r, ApiOf("_startClicked"), Undefined)
            /\ runs' = Resume(r, "api", result)
            /\ progress' = progress
      [] result = "invalid" ->
            /\ calls' = calls
            /\ runs' = Resume(r, "dialog", result)
            /\ progress' = progress
      [] result = "error" ->
            /\ calls' = calls
            /\ runs' = Resume(r, "done", result)
            /\ progress' = progress

\* the validation settled with result: go on to startHassioAddon, show the
\* dialog about the invalid configuration, or show the alert and return
StartAfterValidation(r, result) ==
    CASE result = "valid" ->
            /\ calls' = ApiCall(r, ApiOf("_startClicked"), Undefined)
            /\ runs' = Resume(r, "api", result)
            /\ progress' = progress
      [] result = "invalid" ->
            /\ calls' = calls
            /\ runs' = Resume(r, "dialog", result)
            /\ progress' = progress
      [] result = "error" ->
            /\ calls' = calls
            /\ runs' = Resume(r, "done", result)
            /\ progress' = [progress EXCEPT !["start"] = FALSE]

StartValidated ==
    \E r \in 1..Len(runs), result \in ValidationResults :
        /\ runs[r].handler = "_startClicked"
        /\ runs[r].pc = "validate"
        /\ StartAfterValidation(r, result)
        /\ UNCHANGED <<addon, _metrics, _error, events, loads>>
        /\ UNCHANGED <<engineVars, serviceVars>>

\* the dialog about the invalid configuration is closed
StartDialogClosed ==
    \E r \in 1..Len(runs) :
        /\ runs[r].handler = "_startClicked"
        /\ runs[r].pc = "dialog"
        /\ progress' = [progress EXCEPT !["start"] = FALSE]
        /\ runs' = Resume(r, "done", "closed")
        /\ UNCHANGED <<addon, _metrics, _error, events, calls, loads>>
        /\ UNCHANGED <<engineVars, serviceVars>>

\* startHassioAddon settles
StartSettled ==
    \E r \in 1..Len(runs), ok \in BOOLEAN :
        /\ runs[r].handler = "_startClicked"
        /\ runs[r].pc = "api"
        /\ IF ok
           THEN /\ calls' = ApiCall(r, "fetchHassioAddonInfo", Undefined)
                /\ runs' = Resume(r, "fetch", "ok")
                /\ progress' = progress
           ELSE /\ calls' = calls
                /\ runs' = Resume(r, "done", "error")
                /\ progress' = [progress EXCEPT !["start"] = FALSE]
        /\ UNCHANGED <<addon, _metrics, _error, events, loads>>
        /\ UNCHANGED <<engineVars, serviceVars>>

\* fetchHassioAddonInfo settles: this.addon = ..., which runs updated()
StartFetched ==
    \E r \in 1..Len(runs), ok \in BOOLEAN :
        /\ runs[r].handler = "_startClicked"
        /\ runs[r].pc = "fetch"
        /\ IF ok
           THEN \E a \in FetchedInfo(addon) :
                   /\ addon' = a
                   /\ loads' = _loadData(a, loads)
                   /\ events' = FireApiCalled(events, r, PathOf("_startClicked"))
           ELSE UNCHANGED <<addon, loads, events>>
        /\ progress' = [progress EXCEPT !["start"] = FALSE]
        /\ runs' = Resume(r, "done", IF ok THEN "ok" ELSE "error")
        /\ UNCHANGED <<_metrics, _error, calls>>
        /\ UNCHANGED <<engineVars, serviceVars>>

\* a click on Uninstall, up to `await showConfirmationDialog(...)`
UninstallClicked ==
    /\ Len(runs) < MaxClicks
    /\ progress' = [progress EXCEPT !["uninstall"] = TRUE]
    /\ runs' = StartRun("_uninstallClicked", "dialog")
    /\ UNCHANGED <<addon, _metrics, _error, events, calls, loads>>
    /\ UNCHANGED <<engineVars, serviceVars>>

\* a handler that uninstalls whatever the dialog answers
UninstallAfterDialogAlways(r, confirmed) ==
    /\ _error' = Undefined
    /\ calls' = ApiCall(r, ApiOf("_uninstallClicked"), Undefined)
    /\ runs' = Resume(r, "api", IF confirmed THEN "confirmed" ELSE "dismissed")
    /\ progress' = progress

\* the confirmation dialog resolved with confirmed
UninstallAfterDialog(r, confirmed) ==
    IF confirmed
    THEN /\ _error' = Undefined
         /\ calls' = ApiCall(r, ApiOf("_uninstallClicked"), Undefined)
         /\ runs' = Resume(r, "api", "confirmed")
         /\ progress' = progress
    ELSE /\ _error' = _error
         /\ calls' = calls
         /\ runs' = Resume(r, "done", "dismissed")
         /\ progress' = [progress EXCEPT !["uninstall"] = FALSE]

UninstallDialogClosed ==
    \E r \in 1..Len(runs), confirmed \in BOOLEAN :
        /\ runs[r].handler = "_uninstallClicked"
        /\ runs[r].pc = "dialog"
        /\ UninstallAfterDialog(r, confirmed)
        /\ UNCHANGED <<addon, _metrics, events, loads>>
        /\ UNCHANGED <<engineVars, serviceVars>>

\* a fetchHassioStats call of _loadData settles: this._metrics = await ...
StatsSettled ==
    \E i \in 1..Len(loads), ok \in BOOLEAN :
        /\ loads[i].fetch = "pending"
        /\ _metrics' = IF ok THEN Def(fetchHassioStats(loads[i].slug))
                       ELSE _metrics
        /\ loads' = [loads EXCEPT ![i].fetch = IF ok THEN "resolved"
                                               ELSE "rejected"]
        /\ UNCHANGED <<addon, _error, progress, runs, events, calls>>
        /\ UNCHANGED <<engineVars, serviceVars>>

\* the parent sets the addon property: updated() runs _loadData()
AddonChanged ==
    \E a \in Addons :
        /\ Len(loads) < MaxLoads
        /\ a # addon
        /\ addon' = a
        /\ loads' = _loadData(a, loads)
        /\ UNCHANGED <<_metrics, _error, progress, runs, events, calls>>
        /\ UNCHANGED <<engineVars, serviceVars>>

NextInfo ==
    \/ ToggleClicked
    \/ ToggleSettled
    \/ ButtonClicked
    \/ ButtonSettled
    \/ UpdateAddonCalled
    \/ UpdateAddonSettled
    \/ StartClicked
    \/ StartValidated
    \/ StartDialogClosed
    \/ StartSettled
    \/ StartFetched
    \/ UninstallClicked
    \/ UninstallDialogClosed

\* the handler runs of one card; the stats fetches of _loadData, which no
\* handler reads, settle in SpecMetrics
SpecInfo == InitInfo /\ [][NextInfo]_vars

NextMetrics == AddonChanged \/ StatsSettled

SpecMetrics == InitInfo /\ [][NextMetrics]_vars

-----------------------------------------------------------------------------
(* Vocabulary of the properties *)

AfterSort == call.op = "fuzzyFilterSort"
AfterMatch == call.op = "fuzzySequentialMatch"

W_Ab == <<"A", "b">>
W_bA == <<"b", ":", ":", "A">>

\* the scorer's answer for an alias in the last call
ScorerSays(word) ==
    fuzzyScore(call.filter, toLowerCase(call.filter),
               word, toLowerCase(word), call.table)

\* the aliases of an item that the scorer matched in the last call
MatchedAliases(id) ==
    { a \in 1..Len(heap[id].strings) : IsDef(ScorerSays(heap[id].strings[a])) }

RawOf(id, a) == Val(ScorerSays(heap[id].strings[a])).score

Remapped(raw) == IF raw = 0 THEN 1 ELSE raw

MaxOf(S) == CHOOSE x \in S : \A y \in S : y <= x

\* the number of occurrences of "::" in s, counted left to right from i
RECURSIVE CountSeparators(_, _)
CountSeparators(s, i) ==
    IF i >= Len(s) THEN 0
    ELSE IF s[i] = ":" /\ s[i + 1] = ":" THEN 1 + CountSeparators(s, i + 2)
    ELSE CountSeparators(s, i + 1)

RECURSIVE Concat(_)
Concat(fragments) ==
    IF fragments = <<>> THEN <<>>
    ELSE Head(fragments) \o Concat(Tail(fragments))

\* the fragments put together again with "::" between them
RECURSIVE JoinWithSeparator(_)
JoinWithSeparator(fragments) ==
    IF Len(fragments) <= 1 THEN Concat(fragments)
    ELSE Head(fragments) \o <<":", ":">> \o JoinWithSeparator(Tail(fragments))

\* the markers are single characters that no alias of the model contains
DeleteMarkers(s, decorate) ==
    SelectSeq(s, LAMBDA c : <<c>> # decorate.left /\ <<c>> # decorate.right)

Decorated == IsDef(decoration.fragments)

-----------------------------------------------------------------------------
(* Properties *)

\* C1: the sequence returned by fuzzyFilterSort is ordered by non-increasing
\* score: for positions i < j of the output, output[i].score >= output[j].score.
C1_OutputByDescendingScore ==
    IsDef(sorted) =>
        LET out == Val(sorted)
        IN  \A i, j \in 1..Len(out) :
                i < j => /\ IsDef(heap[out[i]].score)
                         /\ IsDef(heap[out[j]].score)
                         /\ Val(heap[out[i]].score) >= Val(heap[out[j]].score)

\* the second item of the input comes back first: a raw 0, remapped to 1,
\* before a -2
C1_Witness ==
    /\ items = <<1, 2>>
    /\ sorted = Def(<<2, 1>>)
    /\ heap[2].score = Def(1)
    /\ heap[1].score = Def(-2)

\* C2: after a fuzzyFilterSort pass, an item's score is defined exactly when
\* one of its aliases matched, and the item is in the output exactly when its
\* score is defined, whatever the score was before the pass.
C2_ScoreDefinedIffMatched ==
    AfterSort =>
        \A k \in 1..Len(items) :
            LET id == items[k]
            IN  /\ IsDef(heap[id].score) <=> MatchedAliases(id) # {}
                /\ id \in Range(Val(sorted)) <=> IsDef(heap[id].score)

\* filter "aB": the item "Ab" is kept, the item "b::A" is rejected
C2_Witness ==
    /\ AfterSort
    /\ call.filter = <<"a", "B">>
    /\ Len(items) = 2
    /\ heap[1].strings = <<W_Ab>>
    /\ heap[2].strings = <<W_bA>>
    /\ sorted = Def(<<1>>)
    /\ heap[2].score = Undefined

\* C3: an item whose best matching alias has the raw score 0 is in the output
\* of fuzzyFilterSort with the score 1.
C3_ZeroScoreRemapped ==
    AfterSort =>
        \A id \in Range(items) :
            ( /\ MatchedAliases(id) # {}
              /\ MaxOf({RawOf(id, a) : a \in MatchedAliases(id)}) = 0 )
            => /\ id \in Range(Val(sorted))
               /\ heap[id].score = Def(1)

\* an item with the raw scores -2 and 0 comes back with the score 1
C3_Witness ==
    /\ AfterSort
    /\ \E id \in Range(items) :
        /\ Cardinality(MatchedAliases(id)) = 2
        /\ {RawOf(id, a) : a \in MatchedAliases(id)} = {-2, 0}
        /\ id \in Range(Val(sorted))
        /\ heap[id].score = Def(1)

\* C4: the score returned by fuzzySequentialMatch is the maximum, over the
\* aliases that matched, of the remapped raw score (0 becomes 1, every other
\* raw score is kept).
C4_ScoreIsMaxOfRemapped ==
    (AfterMatch /\ IsDef(match.result)) =>
        /\ MatchedAliases(match.item) # {}
        /\ Val(match.result).score =
              MaxOf({Remapped(RawOf(match.item, a)) :
                        a \in MatchedAliases(match.item)})

\* two matching aliases, the first with the raw score 3, the second with 0
C4_Witness ==
    /\ AfterMatch
    /\ IsDef(match.result)
    /\ Len(heap[match.item].strings) = 2
    /\ MatchedAliases(match.item) = {1, 2}
    /\ RawOf(match.item, 1) = 3
    /\ RawOf(match.item, 2) = 0
    /\ Val(match.result).score = 3

C6_EmptyFilterReturnsAll ==
    (AfterSort /\ call.filter = <<>>) =>
        /\ Range(Val(sorted)) = Range(items)
        /\ \A id \in Range(items) : IsDef(heap[id].score)

\* C6, amended: with the empty filter fuzzyFilterSort returns exactly the
\* input items that have at least one alias, each with a defined score; an
\* item without aliases is left out, with its score undefined.
C6_EmptyFilterReturnsItemsWithAliases ==
    (AfterSort /\ call.filter = <<>>) =>
        /\ Range(Val(sorted)) =
              {id \in Range(items) : heap[id].strings # <<>>}
        /\ \A id \in Range(items) :
              IsDef(heap[id].score) <=> heap[id].strings # <<>>

\* the empty filter on an item with a negative raw score and an item without
\* aliases
C6_Witness ==
    /\ AfterSort
    /\ call.filter = <<>>
    /\ Len(items) = 2
    /\ heap[1].strings = <<>>
    /\ heap[2].strings = <<W_Ab>>
    /\ sorted = Def(<<2>>)
    /\ heap[2].score = Def(-2)

\* C7: every element of the output of fuzzyFilterSort is one of the input
\* items, none twice; a pass leaves the alias list of every item as it was
\* and creates no item; the input collection keeps its length and order.
C7_IdentityAndFrame ==
    [][ /\ items' = items
        /\ DOMAIN heap' = DOMAIN heap
        /\ \A id \in DOMAIN heap : heap'[id].strings = heap[id].strings
        /\ IsDef(sorted') =>
              /\ Range(Val(sorted')) \subseteq Range(items)
              /\ Cardinality(Range(Val(sorted'))) = Len(Val(sorted'))
      ]_vars

\* a pass that returned the two input items in the other order, decorated
C7_Witness ==
    /\ AfterSort
    /\ items = <<1, 2>>
    /\ sorted = Def(<<2, 1>>)
    /\ IsDef(heap[1].decoratedStrings)
    /\ IsDef(heap[2].decoratedStrings)

\* C8: a result of fuzzySequentialMatch has one fragment group per alias, in
\* the order of the alias list; the group of an alias that did not match is
\* the single fragment equal to the alias, the group of an alias that matched
\* is that alias with markers added and cut at "::".
C8_OneGroupPerAlias ==
    (AfterMatch /\ IsDef(match.result)) =>
        LET strings == heap[match.item].strings
            groups == Val(match.result).decoratedStrings
            decorate == Val(DefaultDecorate(call.decorate))
        IN  /\ Len(groups) = Len(strings)
            /\ \A i \in 1..Len(strings) :
                  i <= Len(groups) =>
                      IF i \in MatchedAliases(match.item)
                      THEN DeleteMarkers(JoinWithSeparator(groups[i]),
                                         decorate) = strings[i]
                      ELSE groups[i] = <<strings[i]>>

\* filter "aB" on the aliases "b::A", "Ab": the first is left whole, the
\* second is wrapped
C8_Witness ==
    /\ AfterMatch
    /\ call.filter = <<"a", "B">>
    /\ call.decorate = Undefined
    /\ heap[match.item].strings = <<W_bA, W_Ab>>
    /\ IsDef(match.result)
    /\ Val(match.result).decoratedStrings =
          << <<W_bA>>, << <<"[", "A", "b", "]">> >> >>

\* C9, as stated: a decorator given no ranges cuts the alias at "::": an
\* unmatched alias with k occurrences of "::" yields k + 1 fragments.
C9_UnmatchedAliasIsSplit ==
    (Decorated /\ decoration.scores = Undefined) =>
        Len(Val(decoration.fragments)) = CountSeparators(decoration.word, 1) + 1

\* C9, amended: a decorator given no ranges returns the alias undecorated as
\* one fragment, the whole alias, not cut at "::".
C9_UnmatchedAliasIsOneFragment ==
    (Decorated /\ decoration.scores = Undefined) =>
        Val(decoration.fragments) = <<decoration.word>>

\* the unmatched alias "b::A" came back whole
C9_Witness ==
    /\ Decorated
    /\ decoration.scores = Undefined
    /\ decoration.word = W_bA
    /\ Val(decoration.fragments) = <<W_bA>>

\* C10, as stated: the fragments of a decorator, concatenated and with the
\* markers deleted, are the alias character for character.
C10_ConcatenationGivesAlias ==
    Decorated =>
        DeleteMarkers(Concat(Val(decoration.fragments)), decoration.decorate)
            = decoration.word

\* C10, amended: the fragments of a decorator, put together with "::" between
\* consecutive fragments and with the markers deleted, are the alias character
\* for character; the separators at which the text is cut are in no fragment.
C10_JoinedFragmentsGiveAlias ==
    Decorated =>
        DeleteMarkers(JoinWithSeparator(Val(decoration.fragments)),
                      decoration.decorate)
            = decoration.word

\* "a::b::" with the ranges [0,1) and [3,4): three fragments, two of them marked
C10_Witness ==
    /\ Decorated
    /\ decoration.word = <<"a", ":", ":", "b", ":", ":">>
    /\ IsDef(decoration.scores)
    /\ Val(decoration.scores).ranges =
          <<[start |-> 0, end |-> 1], [start |-> 3, end |-> 4]>>
    /\ decoration.decorate = createMatchDecorator(<<"[">>, <<"]">>)
    /\ Val(decoration.fragments) =
          << <<"[", "a", "]">>, <<"[", "b", "]">>, <<>> >>

\* the 0-based positions at which the occurrences of "::" in s start, found
\* left to right from the 1-based index i
RECURSIVE SeparatorStarts(_, _)
SeparatorStarts(s, i) ==
    IF i >= Len(s) THEN {}
    ELSE IF s[i] = ":" /\ s[i + 1] = ":"
         THEN {i - 1} \cup SeparatorStarts(s, i + 2)
         ELSE SeparatorStarts(s, i + 1)

\* the range r shares a character with the separator that starts at p
Touches(r, p) == r.start < p + 2 /\ r.end > p

\* the pieces of word between its separators, each character of a range
\* wrapped in the markers, from the 0-based position i on
RECURSIVE MarkedPieces(_, _, _, _, _)
MarkedPieces(word, ranges, decorate, i, cur) ==
    IF i >= Len(word) THEN <<cur>>
    ELSE IF i \in SeparatorStarts(word, 1)
         THEN <<cur>> \o MarkedPieces(word, ranges, decorate, i + 2, <<>>)
         ELSE MarkedPieces(word, ranges, decorate, i + 1,
                  cur \o (IF \E k \in 1..Len(ranges) : ranges[k].start = i
                          THEN decorate.left ELSE <<>>)
                      \o <<word[i + 1]>>
                      \o (IF \E k \in 1..Len(ranges) : ranges[k].end = i + 1
                          THEN decorate.right ELSE <<>>))

\* C11, as stated: for a matched alias a decorator yields one fragment boundary
\* for every occurrence of "::" in the alias (k occurrences, k + 1 fragments),
\* also when a range starts or ends inside a separator or next to it.
C11_OneBoundaryPerSeparator ==
    (Decorated /\ IsDef(decoration.scores)) =>
        Len(Val(decoration.fragments)) = CountSeparators(decoration.word, 1) + 1

\* C12: when no matched range touches a separator, the fragments are the
\* "::"-separated pieces of the alias, in order, each matched span wrapped in
\* the markers and the other text unchanged.
C12_PiecesWithWrappedSpans ==
    ( /\ Decorated
      /\ IsDef(decoration.scores)
      /\ \A k \in 1..Len(Val(decoration.scores).ranges) :
            LET r == Val(decoration.scores).ranges[k]
            IN  /\ r.start < r.end
                /\ \A p \in SeparatorStarts(decoration.word, 1) : ~Touches(r, p) )
    => Val(decoration.fragments) =
          MarkedPieces(decoration.word, Val(decoration.scores).ranges,
                       decoration.decorate, 0, <<>>)

\* "light::kitchen" with the range of "kitchen" and the markers "[", "]"
C12_Witness ==
    /\ Decorated
    /\ decoration.word = LightKitchen
    /\ decoration.scores = Def([score |-> 0, ranges |-> <<[start |-> 7, end |-> 14]>>])
    /\ decoration.decorate = createMatchDecorator(<<"[">>, <<"]">>)
    /\ Val(decoration.fragments) =
          << <<"l", "i", "g", "h", "t">>,
             <<"[", "k", "i", "t", "c", "h", "e", "n", "]">> >>

\* C13, as stated: decoratedStrings is produced only when the caller supplies a
\* decorator; after a call without a decorator argument no fragment groups are
\* attached.
C13_NoGroupsWithoutDecorator ==
    (AfterMatch /\ call.decorate = Undefined /\ IsDef(match.result)) =>
        Val(match.result).decoratedStrings = <<>>

\* C13: decoratedStrings is produced on every match: one group per alias, made
\* by the caller's decorator when one is supplied and by the default decorator
\* with the markers "[" and "]" when the argument is left out; fuzzyFilterSort
\* without a decorator attaches the same bracket-decorated groups to the item.
C13_DefaultDecoratorApplies ==
    (AfterMatch /\ IsDef(match.result)) =>
        LET d == IF IsDef(call.decorate) THEN Val(call.decorate)
                 ELSE [left |-> <<"[">>, right |-> <<"]">>]
            strs == heap[match.item].strings
            groups == Val(match.result).decoratedStrings
        IN  /\ Len(groups) = Len(strs)
            /\ \A a \in 1..Len(strs) :
                  groups[a] = _decorateMatch(strs[a], <<d.left, d.right>>,
                                             ScorerSays(strs[a]))
            /\ call.decorate = Undefined =>
                  LET r == fuzzyFilterSort(call.filter, items, Undefined,
                                           call.table, heap)
                  IN  /\ r.result = <<match.item>>
                      /\ r.heap[match.item].decoratedStrings = Def(groups)

\* "Ab" matched by "aB" without a decorator argument comes back as "[Ab]"
C13_Witness ==
    /\ AfterMatch
    /\ call.decorate = Undefined
    /\ call.filter = <<"a", "B">>
    /\ heap[match.item].strings = <<W_Ab>>
    /\ IsDef(match.result)
    /\ Val(match.result).decoratedStrings = << << <<"[", "A", "b", "]">> >> >>

\* the letters of p, compared without regard to case, appear in w in the same
\* relative order
Embeds(p, w) ==
    \E f \in [1..Len(p) -> 1..Len(w)] :
        /\ \A i \in 1..Len(p) : LowerChar(w[f[i]]) = LowerChar(p[i])
        /\ \A i \in 1..(Len(p) - 1) : f[i] < f[i + 1]

\* C14: the scorer gives no score to a candidate that does not contain the
\* filter as a case-insensitive subsequence, and an item none of whose aliases
\* contains it has no score and is not in the output of fuzzyFilterSort.
C14_NonSubsequenceIsFilteredOut ==
    AfterSort =>
        \A id \in Range(items) :
            /\ \A a \in 1..Len(heap[id].strings) :
                  ~Embeds(call.filter, heap[id].strings[a]) =>
                      ScorerSays(heap[id].strings[a]) = Undefined
            /\ (\A a \in 1..Len(heap[id].strings) :
                    ~Embeds(call.filter, heap[id].strings[a]))
               => /\ heap[id].score = Undefined
                  /\ id \notin Range(Val(sorted))

\* "b:" is in "b::A" and not in "Ab": of two such items one is returned
C14_Witness ==
    /\ AfterSort
    /\ call.filter = <<"b", ":">>
    /\ \E id \in Range(items) :
          /\ heap[id].strings = <<W_Ab>>
          /\ id \notin Range(Val(sorted))
    /\ \E id \in Range(items) :
          /\ heap[id].strings = <<W_bA>>
          /\ id \in Range(Val(sorted))

\* the text of w before, inside and between the ranges rs from the k-th range
\* on, in order, starting at the 0-based position pos
RECURSIVE Interleave(_, _, _, _)
Interleave(w, rs, k, pos) ==
    IF k > Len(rs) THEN SubSeq(w, pos + 1, Len(w))
    ELSE SubSeq(w, pos + 1, rs[k].start)
            \o SubSeq(w, rs[k].start + 1, rs[k].end)
            \o Interleave(w, rs, k + 1, rs[k].end)

\* the ranges handed to the decorator for the a-th alias of the matched item
RangesOfAlias(a) ==
    createMatches(Val(ScorerSays(heap[match.item].strings[a])))

\* C15: for every matched alias the ranges handed to the decorator are sorted
\* left to right, do not overlap and lie inside the alias, so the text outside
\* the ranges interleaved with the text inside them is the alias again (also
\* as the decorator's loop assembles it, with empty markers).
C15_RangesPartitionAlias ==
    AfterMatch =>
        \A a \in 1..Len(heap[match.item].strings) :
            IsDef(ScorerSays(heap[match.item].strings[a])) =>
                LET w == heap[match.item].strings[a]
                    rs == RangesOfAlias(a)
                    loop == DecorateLoop(w, <<>>, <<>>, rs, 0, <<>>)
                IN  /\ \A k \in 1..Len(rs) :
                          0 <= rs[k].start /\ rs[k].start <= rs[k].end
                                           /\ rs[k].end <= Len(w)
                    /\ \A k \in 1..(Len(rs) - 1) : rs[k].end <= rs[k + 1].start
                    /\ Interleave(w, rs, 1, 0) = w
                    /\ loop.actualWord \o substring(w, loop.pos, Len(w)) = w

\* "bA" matches "b::A" in two places
C15_Witness ==
    /\ AfterMatch
    /\ call.filter = <<"b", "A">>
    /\ heap[match.item].strings = <<W_bA>>
    /\ IsDef(ScorerSays(W_bA))
    /\ RangesOfAlias(1) = <<[start |-> 0, end |-> 1], [start |-> 3, end |-> 4]>>

\* the character c in upper and in lower case
CaseVariants(c) ==
    CASE c \in {"a", "A"} -> {"a", "A"}
      [] c \in {"b", "B"} -> {"b", "B"}
      [] OTHER -> {c}

\* the strings with the letters of s, in any upper/lower case
RECURSIVE Recasings(_)
Recasings(s) ==
    IF s = <<>> THEN {<<>>}
    ELSE { <<c>> \o r : c \in CaseVariants(Head(s)), r \in Recasings(Tail(s)) }

UpperChar(c) == CASE c = "a" -> "A" [] c = "b" -> "B" [] OTHER -> c
toUpperCase(s) == [i \in 1..Len(s) |-> UpperChar(s[i])]

\* fuzzySequentialMatch(filter, item with the aliases strs) reports a match
ReportsMatch(filter, strs) ==
    IsDef(fuzzySequentialMatch(filter, FreshItem(strs), Undefined,
                               [w \in Range(strs) |-> 3]))

\* fuzzyFilterSort(filter, <<item with the aliases strs>>) returns the item
ReturnsItem(filter, strs) ==
    fuzzyFilterSort(filter, <<1>>, Undefined, [w \in Range(strs) |-> 3],
                    <<FreshItem(strs)>>).result = <<1>>

\* C16: matching does not depend on letter case: for the filter and every
\* alias of a call, every re-casing of the two matches if and only if they do,
\* and the item written all in upper or all in lower case is matched, and
\* returned by fuzzyFilterSort, if and only if the item is matched.
C16_MatchIgnoresCase ==
    AfterMatch =>
        LET strs == heap[match.item].strings
        IN  /\ \A a \in 1..Len(strs) :
                  \A f \in Recasings(call.filter), c \in Recasings(strs[a]) :
                      ReportsMatch(f, <<c>>) <=> IsDef(ScorerSays(strs[a]))
            /\ \A f \in Recasings(call.filter) :
                  /\ ReportsMatch(f, [a \in 1..Len(strs) |-> toUpperCase(strs[a])])
                        <=> IsDef(match.result)
                  /\ ReturnsItem(f, [a \in 1..Len(strs) |-> toLowerCase(strs[a])])
                        <=> IsDef(match.result)

\* "aB" matches "Ab", and so does "Ab" match "aB"
C16_Witness ==
    /\ AfterMatch
    /\ call.filter = <<"a", "B">>
    /\ heap[match.item].strings = <<W_Ab>>
    /\ IsDef(match.result)
    /\ call.filter # W_Ab
    /\ ReportsMatch(<<"A", "b">>, << <<"a", "B">> >>)

\* the last call, made alone on fresh items with the same alias lists
AloneOnFreshItems ==
    fuzzyFilterSort(call.filter, items, call.decorate, call.table,
                    [id \in DOMAIN heap |-> FreshItem(heap[id].strings)])

\* C17: no state is carried between calls: after fuzzyFilterSort(F1, items) and
\* then fuzzyFilterSort(F2, items) on the same item objects, the output
\* sequence, the scores and the decoratedStrings are those of
\* fuzzyFilterSort(F2, ...) alone on fresh items with the same alias lists;
\* repeating a call (F1 = F2) gives the same results again.
C17_NothingCarriedOver ==
    (AfterSort /\ IsDef(rerun)) =>
        /\ sorted = Def(AloneOnFreshItems.result)
        /\ heap = AloneOnFreshItems.heap
        /\ items = AloneOnFreshItems.items

\* after a pass with "b:", which gives "b::A" a score and "Ab" none, a pass
\* with "aB" returns "Ab" only and leaves no score on "b::A"
C17_Witness ==
    /\ AfterSort
    /\ rerun = Def(<<"b", ":">>)
    /\ call.filter = <<"a", "B">>
    /\ Len(items) = 2
    /\ heap[1].strings = <<W_bA>>
    /\ heap[2].strings = <<W_Ab>>
    /\ heap[1].score = Undefined
    /\ sorted = Def(<<2>>)

\* a call of fuzzySequentialMatch returned: no match, or a match object
ReturnedNormally(result) ==
    \/ result = Undefined
    \/ /\ DOMAIN Val(result) = {"score", "strings", "decoratedStrings"}
       /\ Val(result).score \in Int
       /\ Len(Val(result).decoratedStrings) = Len(Val(result).strings)

\* C18: no match is signalled by an absent score and never by an exception:
\* for every filter and every item whose aliases are strings (an empty alias
\* list, empty strings and a filter longer than every alias included),
\* fuzzySequentialMatch returns no match or a match object, and fuzzyFilterSort
\* returns a list of the items that have a score.
C18_NoMatchIsNeverAnException ==
    AfterMatch =>
        /\ ReturnedNormally(match.result)
        /\ LET r == fuzzyFilterSort(call.filter, items, call.decorate,
                                    call.table, heap)
           IN  /\ r.result \in {<<>>, <<match.item>>}
               /\ r.result = <<>> <=> match.result = Undefined
               /\ \A id \in Range(r.result) :
                      IsDef(r.heap[id].score) /\ Val(r.heap[id].score) \in Int

\* the longest filter on an item with an empty alias and a shorter alias
C18_Witness ==
    /\ AfterMatch
    /\ call.filter = <<"A", "b", ":", ":", "A">>
    /\ heap[match.item].strings = << <<>>, W_Ab >>
    /\ match.result = Undefined

\* C19: fuzzySequentialMatch does not modify the item it is given (score,
\* decoratedStrings and strings stay what they were), and a defined result
\* carries the item's alias list unchanged, the winning score and one fragment
\* group per alias.
C19_MatchLeavesItemUnchanged ==
    [][ call'.op = "fuzzySequentialMatch" =>
          /\ heap' = heap
          /\ items' = items
          /\ IsDef(match'.result) =>
                /\ Val(match'.result).strings = heap[match'.item].strings
                /\ \E a \in 1..Len(heap[match'.item].strings) :
                      LET word == heap[match'.item].strings[a]
                          scores == fuzzyScore(call'.filter, toLowerCase(call'.filter),
                                               word, toLowerCase(word), call'.table)
                      IN  /\ IsDef(scores)
                          /\ Val(match'.result).score = Remapped(Val(scores).score)
                /\ Len(Val(match'.result).decoratedStrings)
                      = Len(heap[match'.item].strings) ]_vars

\* an item that carries the score 3 and plain groups from an earlier pass is
\* matched with the score -2 and decorated groups, and keeps what it carried
C19_Witness ==
    /\ AfterMatch
    /\ heap[match.item].strings = <<W_Ab>>
    /\ heap[match.item].score = Def(3)
    /\ heap[match.item].decoratedStrings = Def(<< <<W_Ab>> >>)
    /\ IsDef(match.result)
    /\ Val(match.result).score = -2
    /\ Val(match.result).decoratedStrings = << << <<"<", "A", "b", ">">> >> >>

\* the position of the item id in the caller's collection
InputPosition(id) == CHOOSE k \in 1..Len(items) : items[k] = id

\* C20: the order of fuzzyFilterSort has no secondary key: the comparator
\* reports two items with equal scores as equal, and (the sort being stable)
\* returned items with equal scores stand in the order they had in the input.
C20_TiesKeepInputOrder ==
    AfterSort =>
        LET out == Val(sorted)
        IN  /\ \A i \in 1..Len(out) : \A j \in (i + 1)..Len(out) :
                  heap[out[i]].score = heap[out[j]].score =>
                      InputPosition(out[i]) < InputPosition(out[j])
            /\ \A i \in 1..Len(out) : \A j \in 1..Len(out) :
                  heap[out[i]].score = heap[out[j]].score =>
                      compareFn(heap[out[i]], heap[out[j]]) = 0

\* two different items come back with the same score, first input first
C20_Witness ==
    /\ AfterSort
    /\ Len(items) = 2
    /\ heap[1].strings # heap[2].strings
    /\ heap[1].score = heap[2].score
    /\ sorted = Def(<<1, 2>>)

\* C22: after any sequence of fuzzyFilterSort passes, every item of the last
\* pass's input has decoratedStrings defined if and only if its score is
\* defined, then with as many groups as the item has aliases; a rejected item
\* keeps no decoratedStrings from this or an earlier pass.
C22_GroupsDefinedIffScoreDefined ==
    AfterSort =>
        \A id \in Range(items) :
            /\ IsDef(heap[id].decoratedStrings) <=> IsDef(heap[id].score)
            /\ IsDef(heap[id].decoratedStrings) =>
                  Len(Val(heap[id].decoratedStrings)) = Len(heap[id].strings)
            /\ id \notin Range(Val(sorted)) =>
                  heap[id].decoratedStrings = Undefined

\* after a pass with the empty filter, which gives both items groups, a pass
\* with "b:" keeps "b::A" and leaves nothing on "Ab"
C22_Witness ==
    /\ AfterSort
    /\ rerun = Def(<<>>)
    /\ call.filter = <<"b", ":">>
    /\ Len(items) = 2
    /\ heap[1].strings = <<W_Ab>>
    /\ heap[2].strings = <<W_bA>>
    /\ heap[1].decoratedStrings = Undefined
    /\ heap[1].score = Undefined
    /\ IsDef(heap[2].decoratedStrings)
    /\ sorted = Def(<<2>>)

-----------------------------------------------------------------------------
(* HaServiceAction.updated: src/unnamed/part_000, lines 172-221 *)

\* the action objects the parent creates
MaxActions == 2

\* an object is a function from its keys to their values

\* values of the data property
Brightness == [brightness |-> "255"]
BrightnessAndEntity == [brightness |-> "255", entity_id |-> "light.old"]

\* the action objects a parent passes: with or without entity_id and data,
\* with a malformed entity id, with a key the struct does not know, and with
\* a template as service
ActionObjects ==
    { [service |-> "light.turn_on"],
      [service |-> "light.turn_on", data |-> Brightness],
      [service |-> "light.turn_on", entity_id |-> "light.a"],
      [service |-> "light.turn_on", entity_id |-> "all", data |-> Brightness],
      [service |-> "light.turn_on", entity_id |-> "light.a",
       data |-> BrightnessAndEntity],
      [service |-> "light.turn_on", entity_id |-> "kitchen", data |-> Brightness],
      [service |-> "light.turn_on", entity_id |-> "light.a", choose |-> "x"],
      [service |-> "{{ service }}", entity_id |-> "light.a", data |-> Brightness] }

\* EntityIdOrAll: "all" or domain.object_id
EntityIdOrAll(e) == e \in {"all", "light.a", "light.old"}

\* assert(this.action, actionStruct) does not throw
actionStruct(o) ==
    /\ DOMAIN o \subseteq {"service", "entity_id", "target", "data"}
    /\ "entity_id" \in DOMAIN o => EntityIdOrAll(o.entity_id)

\* hasTemplate(this.action)
hasTemplate(o) == "service" \in DOMAIN o /\ o.service = "{{ service }}"

\* fireEvent(this, "ui-mode-not-available", error)
UiModeNotAvailable == [type |-> "ui-mode-not-available", detail |-> "error", run |-> 0]

\* {...this.action.data, entity_id: this.action.entity_id}
SpreadData(o) ==
    LET d == IF "data" \in DOMAIN o THEN o.data ELSE <<>>
    IN  [k \in DOMAIN d \cup {"entity_id"} |->
            IF k = "entity_id" THEN o.entity_id ELSE d[k]]

\* {...this.action, data: {...}} followed by delete this._action.entity_id
ActionCopy(o) ==
    [k \in (DOMAIN o \ {"entity_id"}) \cup {"data"} |->
        IF k = "data" THEN SpreadData(o) ELSE o[k]]

\* an update that moves entity_id into data on the action object itself
updatedInPlace(objs, a, cur, evs) ==
    IF ~actionStruct(objs[a]) \/ hasTemplate(objs[a])
    THEN [objects |-> objs, _action |-> cur,
          events |-> Append(evs, UiModeNotAvailable)]
    ELSE IF "entity_id" \in DOMAIN objs[a]
    THEN [objects |-> [objs EXCEPT ![a] = ActionCopy(objs[a])],
          _action |-> Def(a), events |-> evs]
    ELSE [objects |-> objs, _action |-> Def(a), events |-> evs]

\* updated(changedProperties) when changedProperties has "action": objs is the
\* heap, a the reference in this.action, cur the value of this._action
updated(objs, a, cur, evs) ==
    IF ~actionStruct(objs[a])
    THEN [objects |-> objs, _action |-> cur,
          events |-> Append(evs, UiModeNotAvailable)]
    ELSE IF hasTemplate(objs[a])
    THEN [objects |-> objs, _action |-> cur,
          events |-> Append(evs, UiModeNotAvailable)]
    ELSE IF "entity_id" \in DOMAIN objs[a]
    THEN [objects |-> Append(objs, ActionCopy(objs[a])),
          _action |-> Def(Len(objs) + 1), events |-> evs]
    ELSE [objects |-> objs, _action |-> Def(a), events |-> evs]

\* the parent holds MaxActions action objects, none assigned to the element yet
InitService ==
    /\ NoEngine
    /\ NoAddonInfo
    /\ objects \in [1..MaxActions -> ActionObjects]
    /\ action = 0
    /\ _action = Undefined

\* the parent assigns another of its objects to the action property, and the
\* element updates
ActionChanged ==
    \E a \in 1..MaxActions :
        /\ a # action
        /\ Len(objects) < 2 * MaxActions
        /\ Len(events) < MaxActions
        /\ \E r \in {updated(objects, a, _action, events)} :
              /\ action' = a
              /\ objects' = r.objects
              /\ _action' = r._action
              /\ events' = r.events
        /\ UNCHANGED <<addon, _metrics, _error, progress, runs, calls, loads>>
        /\ UNCHANGED engineVars

NextService == ActionChanged

SpecService == InitService /\ [][NextService]_vars

-----------------------------------------------------------------------------
(* Claims about the add-on info card *)

\* the run r has finished
Done(r) == runs[r].pc = "done"

\* the run r takes its last step
Finishes(r) == r \in 1..Len(runs) /\ runs[r].pc # "done" /\ runs'[r].pc = "done"

\* the run r is started by this step
Starts(r) == r = Len(runs) + 1 /\ Len(runs') = r

\* the positions in the call log of the calls of api made by the run r
CallsOf(r, api) ==
    { i \in 1..Len(calls) : calls[i].run = r /\ calls[i].api = api }

\* the positions in the event log of the hass-api-called events of the run r
ApiCalledOf(r) ==
    { i \in 1..Len(events) :
        events[i].run = r /\ events[i].type = "hass-api-called" }

\* the calls and events of the Start runs so far respect the validation
StartRespectsValidation ==
    \A r \in 1..Len(runs) :
        runs[r].handler = "_startClicked" =>
            /\ \A i \in CallsOf(r, "startHassioAddon") :
                  /\ Len(runs[r].awaited) >= 1
                  /\ runs[r].awaited[1] = "valid"
                  /\ \E j \in CallsOf(r, "validateHassioAddonOption") : j < i
            /\ (Len(runs[r].awaited) >= 1 /\ runs[r].awaited[1] # "valid") =>
                  /\ CallsOf(r, "startHassioAddon") = {}
                  /\ ApiCalledOf(r) = {}

\* C24: a click on Start calls startHassioAddon only after
\* validateHassioAddonOption resolved with valid = true in the same run; when
\* the validation reports invalid or throws, that run never calls
\* startHassioAddon, fires no hass-api-called event and does not replace the
\* addon property.
C24_StartOnlyAfterValidation ==
    [][ /\ StartRespectsValidation'
        /\ \A r \in 1..Len(runs) :
              ( /\ runs[r].handler = "_startClicked"
                /\ runs'[r] # runs[r]
                /\ Len(runs'[r].awaited) >= 1
                /\ runs'[r].awaited[1] # "valid" )
              => /\ addon' = addon
                 /\ events' = events
                 /\ CallsOf(r, "startHassioAddon")' = {} ]_vars

\* one Start run went through validation, start and fetch, another one ended
\* at a failed validation
C24_Witness ==
    /\ Len(runs) = 2
    /\ runs[1].handler = "_startClicked"
    /\ runs[1].awaited = <<"valid", "ok", "ok">>
    /\ runs[2].handler = "_startClicked"
    /\ runs[2].awaited = <<"error">>
    /\ Done(2)
    /\ Len(events) = 1

\* C25: uninstallHassioAddon is called only after the confirmation dialog of
\* the same click resolved as confirmed; when the user dismisses the dialog,
\* the run makes no uninstall call, fires no hass-api-called event and leaves
\* _error unchanged.
C25_UninstallOnlyAfterConfirmation ==
    [][ /\ \A r \in 1..Len(runs') :
              runs'[r].handler = "_uninstallClicked" =>
                  /\ \A i \in CallsOf(r, "uninstallHassioAddon")' :
                        /\ Len(runs'[r].awaited) >= 1
                        /\ runs'[r].awaited[1] = "confirmed"
                  /\ (Len(runs'[r].awaited) >= 1
                        /\ runs'[r].awaited[1] = "dismissed") =>
                        /\ CallsOf(r, "uninstallHassioAddon")' = {}
                        /\ ApiCalledOf(r)' = {}
        /\ \A r \in 1..Len(runs) :
              ( /\ runs[r].handler = "_uninstallClicked"
                /\ Finishes(r)
                /\ runs'[r].awaited = <<"dismissed">> )
              => /\ _error' = _error
                 /\ calls' = calls
                 /\ events' = events ]_vars

\* a toggle failed and left its error; the Uninstall dialog was dismissed
\* afterwards, and the error is still there
C25_Witness ==
    /\ Len(runs) = 2
    /\ runs[1].handler = "_watchdogToggled"
    /\ runs[1].awaited = <<"error">>
    /\ runs[2].handler = "_uninstallClicked"
    /\ runs[2].awaited = <<"dismissed">>
    /\ Done(2)
    /\ IsDef(_error)
    /\ Len(calls) = 1

\* the handlers that are given a progress button
ProgressHandlers == ButtonHandlers \cup {"_startClicked", "_uninstallClicked"}

\* C26: each progress-button handler (install, stop, restart, start,
\* uninstall) sets button.progress to true when it starts, and the progress is
\* false when the handler finishes, on every path: API success, API error,
\* invalid or failed validation, dismissed confirmation.
C26_ProgressSetThenCleared ==
    [][ \A r \in 1..Len(runs') :
            runs'[r].handler \in ProgressHandlers =>
                /\ Starts(r) => progress'[ButtonOf(runs'[r].handler)] = TRUE
                /\ Finishes(r) => progress'[ButtonOf(runs'[r].handler)] = FALSE
      ]_vars

\* a Start run that ended at a failed validation and an Uninstall run that
\* was dismissed: both buttons are idle again
C26_Witness ==
    /\ Len(runs) = 2
    /\ runs[1].handler = "_startClicked"
    /\ runs[1].awaited = <<"error">>
    /\ runs[2].handler = "_uninstallClicked"
    /\ runs[2].awaited = <<"dismissed">>
    /\ Done(1) /\ Done(2)
    /\ progress["start"] = FALSE
    /\ progress["uninstall"] = FALSE

\* the path that names the action of a handler
PathNamesHandler(handler) ==
    CASE handler = "_installClicked" -> "install"
      [] handler = "_stopClicked" -> "stop"
      [] handler = "_restartClicked" -> "restart"
      [] handler = "_uninstallClicked" -> "uninstall"
      [] handler = "_startClicked" -> "start"
      [] handler = "_updateAddon" -> "update"
      [] handler = "_protectionToggled" -> "security"
      [] OTHER -> "option"

\* the run r is over and the last call it awaited succeeded / failed
Succeeded(r) ==
    Done(r) /\ runs[r].awaited[Len(runs[r].awaited)] = "ok"
Failed(r) ==
    Done(r) /\ runs[r].awaited[Len(runs[r].awaited)] = "error"

\* C27, as stated: a handler whose API call succeeds fires exactly one
\* hass-api-called event, with success = true and the path that names its
\* action (install, stop, restart, start, uninstall, update, option,
\* security); a handler whose API call fails fires none.
C27_OneEventNamingTheAction ==
    \A r \in 1..Len(runs) :
        /\ Succeeded(r) =>
              /\ Cardinality(ApiCalledOf(r)) = 1
              /\ \A i \in ApiCalledOf(r) :
                    /\ events[i].detail.success = TRUE
                    /\ events[i].detail.path = PathNamesHandler(runs[r].handler)
        /\ Failed(r) => ApiCalledOf(r) = {}

\* C28, as stated: stats are fetched only for a started add-on, and whenever
\* no fetchHassioStats call is in flight (all of them resolved) and the current
\* add-on is started, _metrics holds the stats fetched for the slug of the
\* current add-on, whatever the order in which pending fetches resolved.
C28_MetricsOfCurrentAddon ==
    /\ \A i \in 1..Len(loads) :
          loads[i].fetch # "none" => loads[i].state = "started"
    /\ ( /\ \A i \in 1..Len(loads) : loads[i].fetch \in {"none", "resolved"}
         /\ addon.state = "started" )
       => _metrics = Def(fetchHassioStats(addon.slug))

\* C30, as stated: _error is cleared when a toggle handler starts, the value
\* it requests is the negation of the add-on's current value, and when the
\* handler finishes _error is defined if and only if the API call of that
\* handler run failed.
C30_ErrorIffOwnCallFailed ==
    [][ \A r \in 1..Len(runs') :
            runs'[r].handler \in ToggleHandlers =>
                /\ Starts(r) =>
                      /\ _error' = Undefined
                      /\ calls'[Len(calls')].data =
                            Def(ToggleData(runs'[r].handler, addon))
                /\ Finishes(r) =>
                      (IsDef(_error') <=> runs'[r].awaited = <<"error">>)
      ]_vars

\* the value of the field key of the add-on a, negated
Negated(a, key) ==
    CASE key = "boot" -> [boot |-> IF a.boot = "auto" THEN "manual" ELSE "auto"]
      [] key = "watchdog" -> [watchdog |-> ~a.watchdog]
      [] key = "auto_update" -> [auto_update |-> ~a.auto_update]
      [] key = "ingress_panel" -> [ingress_panel |-> ~a.ingress_panel]
      [] key = "protected" -> [protected |-> ~a.protected]

\* the field of the add-on that a toggle handler is about
KeyOf(handler) ==
    CASE handler = "_startOnBootToggled" -> "boot"
      [] handler = "_watchdogToggled" -> "watchdog"
      [] handler = "_autoUpdateToggled" -> "auto_update"
      [] handler = "_panelToggled" -> "ingress_panel"
      [] handler = "_protectionToggled" -> "protected"

\* C30: a toggle handler clears _error when it starts and requests the
\* negation of the add-on's current value (boot: "auto" <-> "manual"); a run
\* whose API call failed finishes with _error defined; a run whose API call
\* succeeded leaves _error as it is when it finishes, so that _error is
\* defined if and only if the API call of the run failed whenever no other
\* handler run was in flight during the run.
C30_ErrorSetByFailedRunOnly ==
    [][ \A r \in 1..Len(runs') :
            runs'[r].handler \in ToggleHandlers =>
                /\ Starts(r) =>
                      /\ _error' = Undefined
                      /\ calls'[Len(calls')] =
                            [api |-> IF runs'[r].handler = "_protectionToggled"
                                     THEN "setHassioAddonSecurity"
                                     ELSE "setHassioAddonOption",
                             slug |-> addon.slug,
                             data |-> Def(Negated(addon, KeyOf(runs'[r].handler))),
                             run |-> r]
                /\ Finishes(r) =>
                      /\ runs'[r].awaited = <<"error">> => IsDef(_error')
                      /\ runs'[r].awaited = <<"ok">> => _error' = _error
                      /\ ~runs'[r].overlapped =>
                            (IsDef(_error') <=> runs'[r].awaited = <<"error">>)
      ]_vars

\* two toggles in flight together: the first one succeeded, the second one
\* failed, and its error is what both have left
C30_Witness ==
    /\ Len(runs) = 2
    /\ runs[1].handler = "_startOnBootToggled"
    /\ runs[2].handler = "_protectionToggled"
    /\ runs[1].overlapped
    /\ runs[1].awaited = <<"ok">>
    /\ runs[2].awaited = <<"error">>
    /\ IsDef(_error)
    /\ calls[1].data = Def([boot |-> "manual"])

-----------------------------------------------------------------------------
(* Claim about HaServiceAction.updated *)

\* the object passes the struct check and holds no template
Editable(o) ==
    /\ DOMAIN o \subseteq {"service", "entity_id", "target", "data"}
    /\ "entity_id" \in DOMAIN o => o.entity_id \in {"all", "light.a", "light.old"}
    /\ o.service # "{{ service }}"

\* c is a copy of o with entity_id moved from the top level into data
MovedIntoData(c, o) ==
    /\ "entity_id" \notin DOMAIN c
    /\ DOMAIN c = (DOMAIN o \ {"entity_id"}) \cup {"data"}
    /\ \A k \in DOMAIN c \ {"data"} : c[k] = o[k]
    /\ c.data.entity_id = o.entity_id
    /\ "data" \in DOMAIN o =>
          /\ DOMAIN o.data \subseteq DOMAIN c.data
          /\ \A k \in DOMAIN o.data \ {"entity_id"} : c.data[k] = o.data[k]
    /\ "data" \notin DOMAIN o => DOMAIN c.data = {"entity_id"}

\* C29: when the action property changed to an object that passes the struct
\* check and has no template: with entity_id set, _action becomes a copy of
\* the action with every original data key plus entity_id = action.entity_id
\* in data and no top-level entity_id, and the action object is not modified;
\* without entity_id, _action is the action object itself. When the struct
\* check fails or the action has a template, ui-mode-not-available is fired
\* and _action keeps its value.
C29_EntityIdMovedIntoDataOfACopy ==
    [][ action' # action =>
          /\ \A id \in 1..Len(objects) : objects'[id] = objects[id]
          /\ IF Editable(objects[action'])
             THEN /\ events' = events
                  /\ IF "entity_id" \in DOMAIN objects[action']
                     THEN /\ IsDef(_action')
                          /\ Val(_action') = Len(objects) + 1
                          /\ Len(objects') = Len(objects) + 1
                          /\ MovedIntoData(objects'[Val(_action')],
                                           objects[action'])
                     ELSE /\ _action' = Def(action')
                          /\ objects' = objects
             ELSE /\ _action' = _action
                  /\ objects' = objects
                  /\ Len(events') = Len(events) + 1
                  /\ events'[Len(events')].type = "ui-mode-not-available"
      ]_vars

\* the first action had an entity_id next to a data.entity_id and was copied;
\* the second one holds a template and left the copy in place
C29_Witness ==
    /\ action = 2
    /\ objects[1] = [service |-> "light.turn_on", entity_id |-> "light.a",
                     data |-> BrightnessAndEntity]
    /\ objects[2].service = "{{ service }}"
    /\ _action = Def(3)
    /\ objects[3] = [service |-> "light.turn_on",
                     data |-> [brightness |-> "255", entity_id |-> "light.a"]]
    /\ Len(events) = 1

====
